---- MODULE Spec2Model ----
(***************************************************************************)
(* Industrial LLM Insight API: the RAG pipeline of src/src/rag_system.py   *)
(* (index logs, embed query, retrieve top-k, keyword rule) and the HTTP    *)
(* service of src/src/main.py around it.                                   *)
(*                                                                         *)
(* Python str values are TLA+ strings (Len, SubSeq and \o act on them),    *)
(* dicts are functions with string keys, lists are sequences.  A call that *)
(* may raise yields Return(v) or Raise(msg).  The embedding model and the  *)
(* vector database are libraries: the model keeps what the code relies on  *)
(* (a fixed-dimension vector per text, cosine ranking, n_results) and      *)
(* leaves open what the code does not decide (the order of equal scores,   *)
(* whether a library call fails).                                          *)
(***************************************************************************)
EXTENDS Integers, Sequences, FiniteSets, TLC

VARIABLES
    rag_system,   \* main.py global: None or the IndustrialRAGSystem object
    collection,   \* rag_system.collection: id -> [embedding, document, metadata]
    phase,        \* startup_event: "not_run", "ready" or "failed"
    data_loaded,  \* startup_event's data_loaded: a data file was indexed
    response,     \* the last HTTP response sent
    last,         \* what the last handler or method call was given and did
    ret           \* the outcome of the last direct method call

vars == <<rag_system, collection, phase, data_loaded, response, last, ret>>

----------------------------------------------------------------------------
(* Bounds of the model.                                                    *)

\* rows of a data file, and of a batch handed to load_and_index_logs
MaxRows == 2
\* largest top_k a request or a direct retrieve call carries, besides the default
MaxTopK == 1
\* records handed to generate_insight in the rule-engine specification
MaxLogs == 4

----------------------------------------------------------------------------
(* Python values.                                                          *)

None == "None"
RAG == "IndustrialRAGSystem"

Return(v) == [ok |-> TRUE, value |-> v]
Raise(msg) == [ok |-> FALSE, exc |-> msg]

\* str.lower() of one character
LowerChar(c) ==
    CASE c = "A" -> "a" [] c = "B" -> "b" [] c = "C" -> "c" [] c = "D" -> "d"
      [] c = "E" -> "e" [] c = "F" -> "f" [] c = "G" -> "g" [] c = "H" -> "h"
      [] c = "I" -> "i" [] c = "J" -> "j" [] c = "K" -> "k" [] c = "L" -> "l"
      [] c = "M" -> "m" [] c = "N" -> "n" [] c = "O" -> "o" [] c = "P" -> "p"
      [] c = "Q" -> "q" [] c = "R" -> "r" [] c = "S" -> "s" [] c = "T" -> "t"
      [] c = "U" -> "u" [] c = "V" -> "v" [] c = "W" -> "w" [] c = "X" -> "x"
      [] c = "Y" -> "y" [] c = "Z" -> "z" [] OTHER -> c

\* str.lower()
RECURSIVE lower(_)
lower(s) ==
    IF Len(s) = 0 THEN ""
    ELSE LowerChar(SubSeq(s, 1, 1)) \o lower(SubSeq(s, 2, Len(s)))

\* Python's `pat in s` on strings
Contains(pat, s) ==
    \E i \in 1..(Len(s) - Len(pat) + 1) : SubSeq(s, i, i + Len(pat) - 1) = pat

\* str(i) for a non-negative int
str(i) == ToString(i)

----------------------------------------------------------------------------
(* Log records: the rows data_generator.py writes.                         *)

LogColumns ==
    {"timestamp", "equipment_id", "equipment_type", "severity", "message",
     "facility", "operator"}

generate_log_entry(timestamp, equipment_id, equipment_type, severity, message) ==
    [timestamp |-> timestamp, equipment_id |-> equipment_id,
     equipment_type |-> equipment_type, severity |-> severity,
     message |-> message, facility |-> "Plant_A", operator |-> "J. Doe"]

TemperatureRecord ==
    generate_log_entry("2024-05-01T08:00:00", "pump_01", "pump", "ERROR",
        "pump_01: Temperature reading 88.0C exceeds normal range")
VibrationRecord ==
    generate_log_entry("2024-05-02T09:00:00", "motor_02", "motor", "WARNING",
        "motor_02: Vibration levels elevated to 9.1Hz")
PressureRecord ==
    generate_log_entry("2024-05-05T12:00:00", "compressor_03", "compressor", "WARNING",
        "compressor_03: System pressure dropped to 18.5 PSI")
NormalRecord ==
    generate_log_entry("2024-05-03T10:00:00", "pump_01", "pump", "INFO",
        "pump_01: Operating within normal parameters")
\* the same event text logged a day later: an equal searchable text
NormalRecordLater ==
    generate_log_entry("2024-05-04T10:00:00", "pump_01", "pump", "INFO",
        "pump_01: Operating within normal parameters")

\* the rows data files and batches are made of
RecordPool == {TemperatureRecord, NormalRecord, NormalRecordLater}

\* the records generate_insight is tried on: one per keyword, one with none
InsightPool == {TemperatureRecord, VibrationRecord, PressureRecord, NormalRecord}

\* all lists over S of length at most n
RECURSIVE ListsUpTo(_, _)
ListsUpTo(S, n) ==
    IF n = 0 THEN {<<>>}
    ELSE LET shorter == ListsUpTo(S, n - 1)
         IN  shorter \cup {Append(l, x) : l \in shorter, x \in S}

\* the columns the searchable_text lambda reads, in the order it reads them
SearchableColumns == <<"equipment_id", "equipment_type", "severity", "message">>

\* the columns the code reads by name: those of the searchable_text lambda
\* and those of the prompt context of generate_insight
ColumnsRead ==
    {SearchableColumns[k] : k \in 1..Len(SearchableColumns)} \cup {"timestamp", "message"}

\* a row of a CSV file whose header has no column c
WithoutColumn(row, c) == [k \in DOMAIN row \ {c} |-> row[k]]

\* the rows of the files that lack one of the columns the code reads
FilesMissingAColumn ==
    {[i \in 1..Len(rows) |-> WithoutColumn(rows[i], c)]
       : rows \in ListsUpTo({TemperatureRecord}, MaxRows) \ {<<>>},
         c \in ColumnsRead}

\* the contents a data file can have: the rows pd.read_csv returns
DataFiles == ListsUpTo(RecordPool, MaxRows) \cup FilesMissingAColumn

----------------------------------------------------------------------------
(* The requests of the model, and the strings the code builds from rows    *)
(* and requests.                                                           *)

DefaultTopK == 5

DefaultSeverity == "WARNING"

Queries == {"pump_01 temperature", "Bearing problems in motors"}

\* the top_k values a caller asks for
TopKs == 1..MaxTopK \cup {DefaultTopK}

\* well-formed JSON bodies of POST /query: top_k is optional
QueryBodies ==
    [query : Queries] \cup [query : Queries, top_k : 1..MaxTopK]

\* well-formed JSON bodies of POST /analyze_anomaly: severity is optional
AnomalyBodies ==
    [equipment_id : {"pump_01", "motor_02"}, anomaly_type : {"bearing_wear"}]
      \cup [equipment_id : {"pump_01", "motor_02"}, anomaly_type : {"bearing_wear"},
            severity : {"ERROR"}]

\* QueryRequest(**body)
QueryRequest(body) ==
    IF "top_k" \in DOMAIN body THEN body ELSE body @@ [top_k |-> DefaultTopK]

\* AnomalyRequest(**body)
AnomalyRequest(body) ==
    IF "severity" \in DOMAIN body THEN body ELSE body @@ [severity |-> DefaultSeverity]

\* the searchable text of one row
searchable_text(row) ==
    row["equipment_id"] \o " " \o row["equipment_type"] \o " "
        \o row["severity"] \o " " \o row["message"]

\* anomaly_query with the severity left out of the search string
anomaly_query_without_severity(request) ==
    request.equipment_id \o " " \o request.anomaly_type

\* the search string analyze_anomaly builds from its request
anomaly_query(request) ==
    request.equipment_id \o " " \o request.anomaly_type \o " " \o request.severity

\* the label analyze_anomaly puts in the result's query field
anomaly_label(request) ==
    "Anomaly analysis for " \o request.equipment_id \o ": " \o request.anomaly_type

----------------------------------------------------------------------------
(* The embedding model (SentenceTransformer.encode): a fixed-dimension     *)
(* vector per text.  The stand-in counts which terms a text mentions,      *)
(* case-insensitively, plus a constant component, so that no vector is     *)
(* zero and equal texts get equal vectors.                                 *)

Terms ==
    <<"pump_01", "motor_02", "compressor_03", "temperature", "vibration",
      "pressure", "bearing", "error", "warning", "info">>

EmbeddingDim == Len(Terms) + 1

TermVector(text) ==
    LET lowered == lower(text)
    IN  [i \in 1..EmbeddingDim |->
            IF i = EmbeddingDim THEN 1
            ELSE IF Contains(Terms[i], lowered) THEN 1 ELSE 0]

\* the vectors of the texts of the model, computed once
EncodeMemo ==
    [text \in {searchable_text(r) : r \in RecordPool \cup InsightPool}
                \cup Queries \cup {anomaly_query(AnomalyRequest(b)) : b \in AnomalyBodies}
        |-> TermVector(text)]

encode(text) ==
    IF text \in DOMAIN EncodeMemo THEN EncodeMemo[text] ELSE TermVector(text)

EmbeddingFailure == "embedding model failed"
IndexFailure == "vector database failed"
LibraryFailures == {EmbeddingFailure, IndexFailure}

\* embedding_model.encode(texts): the vectors, or the library raises
embedding_model_encode(texts) ==
    {Return([i \in 1..Len(texts) |-> encode(texts[i])]), Raise(EmbeddingFailure)}

RECURSIVE SumTo(_, _)
SumTo(f, n) == IF n = 0 THEN 0 ELSE f[n] + SumTo(f, n - 1)

Dot(u, v) == SumTo([i \in 1..Len(u) |-> u[i] * v[i]], Len(u))

\* the cosine similarity of q and u, squared and scaled by |q|^2, as a
\* fraction <<numerator, denominator>> (components are non-negative, so the
\* squares compare as the cosines do)
Similarity(q, u) == <<Dot(q, u) * Dot(q, u), Dot(u, u)>>

\* fraction a is at least fraction b
AtLeast(a, b) == a[1] * b[2] >= b[1] * a[2]

----------------------------------------------------------------------------
(* The vector database collection (chromadb, cosine space).                *)

EmptyCollection == [id \in {} |-> 0]

\* collection.add: inserts the entries under their ids, or the library
\* raises.  An id already in the collection is not overwritten: the library
\* either keeps the stored entry and skips the new one, or rejects the call.
collection_add(coll, embeddings, documents, metadatas, ids) ==
    LET new == {i \in 1..Len(ids) : ids[i] \notin DOMAIN coll}
        added == [id \in DOMAIN coll \cup {ids[i] : i \in new} |->
                    IF id \in DOMAIN coll THEN coll[id]
                    ELSE LET i == CHOOSE j \in new : ids[j] = id
                         IN  [embedding |-> embeddings[i],
                              document |-> documents[i],
                              metadata |-> metadatas[i]]]
    IN  {Return(added), Raise(IndexFailure)}
            \cup (IF new = 1..Len(ids) THEN {} ELSE {Raise("DuplicateIDError")})

\* the rankings of at most k ids out of `ids` by score, highest first; ids
\* of equal score come in whatever order the library's search yields
RECURSIVE Ranked(_, _, _)
Ranked(score, ids, k) ==
    IF k = 0 \/ ids = {} THEN {<<>>}
    ELSE LET best == {i \in ids : \A j \in ids : AtLeast(score[i], score[j])}
         IN  UNION {{<<i>> \o r : r \in Ranked(score, ids \ {i}, k - 1)} : i \in best}

\* collection.query(query_embeddings=[q], n_results=k): one result list per
\* query embedding, or the library raises
collection_query(coll, q, n_results) ==
    LET score == [id \in DOMAIN coll |-> Similarity(q, coll[id].embedding)]
    IN  {Return([ids |-> <<r>>,
                 metadatas |-> <<[i \in 1..Len(r) |-> coll[r[i]].metadata]>>])
            : r \in Ranked(score, DOMAIN coll, n_results)}
          \cup {Raise(IndexFailure)}

----------------------------------------------------------------------------
(* IndustrialRAGSystem (src/src/rag_system.py).                            *)

\* row[key] on a row without that column raises KeyError(key), whose str()
\* is the quoted key
KeyError(key) == Raise("'" \o key \o "'")

\* the first key of `keys` a row lacks, "" when it has them all
FirstMissing(row, keys) ==
    LET missing == {k \in 1..Len(keys) : keys[k] \notin DOMAIN row}
    IN  IF missing = {} THEN ""
        ELSE keys[CHOOSE k \in missing : \A o \in missing : k <= o]

\* load_and_index_logs, given the rows read from the CSV file: the possible
\* outcomes, each the collection afterwards or the exception raised.  The
\* searchable_text lambda runs row by row before anything is stored.
load_and_index_logs(coll, rows) ==
    LET incomplete == {i \in 1..Len(rows) : FirstMissing(rows[i], SearchableColumns) # ""}
        df == [i \in 1..Len(rows) |->
                  rows[i] @@ [searchable_text |-> searchable_text(rows[i])]]
        texts == [i \in 1..Len(df) |-> df[i]["searchable_text"]]
        ids == [i \in 1..Len(df) |-> str(i - 1)]
    IN  IF incomplete # {}
        THEN {KeyError(FirstMissing(rows[CHOOSE i \in incomplete :
                                            \A o \in incomplete : i <= o],
                                    SearchableColumns))}
        ELSE UNION {IF embeddings.ok
                    THEN collection_add(coll, embeddings.value, texts, df, ids)
                    ELSE {embeddings}
                      : embeddings \in embedding_model_encode(texts)}

\* retrieve_relevant_logs asking the collection for the default number of
\* results whatever top_k is
retrieve_relevant_logs_default_k(coll, query, top_k) ==
    UNION {IF query_embedding.ok
           THEN {IF results.ok
                 THEN Return(IF results.value.metadatas # <<>>
                             THEN results.value.metadatas[1] ELSE <<>>)
                 ELSE results
                   : results \in collection_query(coll, query_embedding.value[1],
                                                  DefaultTopK)}
           ELSE {query_embedding}
             : query_embedding \in embedding_model_encode(<<query>>)}

\* retrieve_relevant_logs: the possible outcomes
retrieve_relevant_logs(coll, query, top_k) ==
    UNION {IF query_embedding.ok
           THEN {IF results.ok
                 THEN Return(IF results.value.metadatas # <<>>
                             THEN results.value.metadatas[1] ELSE <<>>)
                 ELSE results
                   : results \in collection_query(coll, query_embedding.value[1], top_k)}
           ELSE {query_embedding}
             : query_embedding \in embedding_model_encode(<<query>>)}

TemperatureInsight ==
    "Temperature anomaly detected. Recommend immediate inspection of cooling systems and thermal sensors."
VibrationInsight ==
    "Vibration patterns suggest mechanical wear. Schedule bearing inspection and lubrication check."
PressureInsight ==
    "Pressure variations detected. Check for leaks, blockages, or pump performance issues."
GenericInsight ==
    "Multiple equipment events detected. Recommend comprehensive system review."
NoLogsInsight == "No relevant logs found for this query."

\* the records the prompt context is built from
ContextWindow == 3

InsightKeywords == {"temperature", "vibration", "pressure"}

\* which keywords message.lower() contains, for the messages of the model,
\* computed once
MentionsMemo ==
    [message \in {r["message"] : r \in RecordPool \cup InsightPool} |->
        {word \in InsightKeywords : Contains(word, lower(message))}]

\* word in log['message'].lower()
message_mentions(word, log) ==
    IF log["message"] \in DOMAIN MentionsMemo /\ word \in InsightKeywords
    THEN word \in MentionsMemo[log["message"]]
    ELSE Contains(word, lower(log["message"]))

\* generate_insight with the vibration rule tried before the temperature rule
generate_insight_vibration_first(query, context_logs) ==
    LET mentions(word) ==
            \E i \in 1..Len(context_logs) : message_mentions(word, context_logs[i])
    IN  IF mentions("vibration") THEN VibrationInsight
        ELSE IF mentions("temperature") THEN TemperatureInsight
        ELSE IF mentions("pressure") THEN PressureInsight
        ELSE GenericInsight

\* the KeyError generate_insight raises, "" when it raises none: the prompt
\* context reads log['timestamp'] and log['message'] of context_logs[:3];
\* the temperature rule then reads log['message'] of every record up to the
\* first that mentions temperature, and the later rules read them all
generate_insight_raises(context_logs) ==
    LET n == Len(context_logs)
        window == 1..(IF n < ContextWindow THEN n ELSE ContextWindow)
        short == {i \in window :
                    FirstMissing(context_logs[i], <<"timestamp", "message">>) # ""}
        scanned == {k \in 1..n :
                      \A j \in 1..(k - 1) :
                         /\ "message" \in DOMAIN context_logs[j]
                         /\ ~message_mentions("temperature", context_logs[j])}
        silent == {k \in scanned : "message" \notin DOMAIN context_logs[k]}
    IN  IF short # {}
        THEN FirstMissing(context_logs[CHOOSE i \in short : \A o \in short : i <= o],
                          <<"timestamp", "message">>)
        ELSE IF silent # {} THEN "message"
        ELSE ""

\* generate_insight on records that have the columns it reads: the prompt
\* context takes context_logs[:3] and is not used; the keyword rules run
\* over all of context_logs
generate_insight(query, context_logs) ==
    LET context == [i \in 1..(IF Len(context_logs) < ContextWindow
                              THEN Len(context_logs) ELSE ContextWindow) |->
                      "- " \o context_logs[i]["timestamp"] \o ": "
                           \o context_logs[i]["message"]]
        mentions(word) ==
            \E i \in 1..Len(context_logs) : message_mentions(word, context_logs[i])
    IN  IF mentions("temperature") THEN TemperatureInsight
        ELSE IF mentions("vibration") THEN VibrationInsight
        ELSE IF mentions("pressure") THEN PressureInsight
        ELSE GenericInsight

\* query_system: the possible outcomes; `now` is pd.Timestamp.now().isoformat()
query_system(coll, query, now) ==
    {IF ~relevant_logs.ok THEN relevant_logs
     ELSE IF relevant_logs.value = <<>>
          THEN Return([query |-> query, relevant_logs |-> <<>>,
                       insight |-> NoLogsInsight])
          ELSE IF generate_insight_raises(relevant_logs.value) # ""
          THEN KeyError(generate_insight_raises(relevant_logs.value))
          ELSE Return([query |-> query, relevant_logs |-> relevant_logs.value,
                       insight |-> generate_insight(query, relevant_logs.value),
                       timestamp |-> now])
       : relevant_logs \in retrieve_relevant_logs(coll, query, DefaultTopK)}

----------------------------------------------------------------------------
(* The HTTP service (src/src/main.py).                                     *)

\* the candidate data paths of startup_event, by position in data_paths
NumPaths == 5
DataPaths == 1..NumPaths

\* the instants pd.Timestamp.now().isoformat() can return
Times == {"2024-06-01T12:00:00", "2024-06-01T12:00:01"}

InsightResponseFields == {"query", "insight", "relevant_logs", "timestamp"}

ValidationFailure == "validation error for InsightResponse: field required"

\* InsightResponse(**result): every field is required
InsightResponse(result) ==
    IF InsightResponseFields \subseteq DOMAIN result
    THEN Return([f \in InsightResponseFields |-> result[f]])
    ELSE Raise(ValidationFailure)

HTTPException(status_code, detail) ==
    [status |-> status_code, body |-> [detail |-> detail]]

JSONResponse(content) == [status |-> 200, body |-> content]

\* what query_system prints before it retrieves
ProcessingLine(query) == "Processing query: " \o query

\* a handler's outcome: the response, the lines printed on the way and the
\* exception raised inside its try block (None when none)
Handled(resp, lines, raised) == [response |-> resp, log |-> lines, raised |-> raised]

\* GET /
root ==
    Handled(JSONResponse([message |-> "Industrial LLM Insight API",
                          status |-> "healthy", version |-> "1.0.0"]), <<>>, None)

\* GET /health
health_check(rs, now) ==
    Handled(JSONResponse([status |-> "healthy",
                          rag_system_initialized |-> (rs # None),
                          timestamp |-> now]), <<>>, None)

\* query_logs with the initialization check moved inside the try block,
\* where `except Exception` catches the HTTPException it raises
query_logs_check_inside_try(rs, coll, request, now) ==
    IF rs = None
    THEN {Handled(HTTPException(500, "Query processing failed: 503: RAG system not initialized"),
                  <<>>, "503: RAG system not initialized")}
    ELSE {LET model == IF result.ok THEN InsightResponse(result.value) ELSE result
          IN  IF model.ok
              THEN Handled(JSONResponse(model.value),
                           <<ProcessingLine(request.query)>>, None)
              ELSE Handled(HTTPException(500, "Query processing failed: " \o model.exc),
                           <<ProcessingLine(request.query)>>, model.exc)
            : result \in query_system(coll, request.query, now)}

\* POST /query: the possible outcomes
query_logs(rs, coll, request, now) ==
    IF rs = None
    THEN {Handled(HTTPException(503, "RAG system not initialized"), <<>>, None)}
    ELSE {LET model == IF result.ok THEN InsightResponse(result.value) ELSE result
          IN  IF model.ok
              THEN Handled(JSONResponse(model.value),
                           <<ProcessingLine(request.query)>>, None)
              ELSE Handled(HTTPException(500, "Query processing failed: " \o model.exc),
                           <<ProcessingLine(request.query)>>, model.exc)
            : result \in query_system(coll, request.query, now)}

\* analyze_anomaly without the initialization check: on None the call of
\* query_system raises AttributeError inside the try block
analyze_anomaly_unchecked(rs, coll, request, now) ==
    LET query == anomaly_query(request)
    IN  IF rs = None
        THEN {Handled(HTTPException(500, "Anomaly analysis failed: "
                                           \o "'NoneType' object has no attribute 'query_system'"),
                      <<>>, "'NoneType' object has no attribute 'query_system'")}
        ELSE {LET labelled == IF result.ok
                              THEN Return([result.value EXCEPT
                                             !["query"] = anomaly_label(request)])
                              ELSE result
                  model == IF labelled.ok THEN InsightResponse(labelled.value)
                           ELSE labelled
              IN  IF model.ok
                  THEN Handled(JSONResponse(model.value), <<ProcessingLine(query)>>, None)
                  ELSE Handled(HTTPException(500, "Anomaly analysis failed: " \o model.exc),
                               <<ProcessingLine(query)>>, model.exc)
                : result \in query_system(coll, query, now)}

\* POST /analyze_anomaly: the possible outcomes
analyze_anomaly(rs, coll, request, now) ==
    IF rs = None
    THEN {Handled(HTTPException(503, "RAG system not initialized"), <<>>, None)}
    ELSE LET query == anomaly_query(request)
         IN  {LET labelled == IF result.ok
                              THEN Return([result.value EXCEPT
                                             !["query"] = anomaly_label(request)])
                              ELSE result
                  model == IF labelled.ok THEN InsightResponse(labelled.value)
                           ELSE labelled
              IN  IF model.ok
                  THEN Handled(JSONResponse(model.value), <<ProcessingLine(query)>>, None)
                  ELSE Handled(HTTPException(500, "Anomaly analysis failed: " \o model.exc),
                               <<ProcessingLine(query)>>, model.exc)
                : result \in query_system(coll, query, now)}

\* the candidate the loop would load if it kept going to the end of the list
last_existing(exists) ==
    IF exists = {} THEN 0 ELSE CHOOSE p \in exists : \A o \in exists : p >= o

\* the first candidate path that exists, 0 when none does
first_existing(exists) ==
    IF exists = {} THEN 0 ELSE CHOOSE p \in exists : \A o \in exists : p <= o

\* startup_event, given the candidate paths that exist: the possible
\* outcomes.  The constructor may raise (the models fail to load); the rows
\* are those of the one file it reads.
startup_event(exists) ==
    LET path == first_existing(exists)
        constructed(coll, loaded, raised) ==
            [rag_system |-> RAG, collection |-> coll, data_path |-> loaded,
             data_loaded |-> (loaded # 0), raised |-> raised]
    IN  {[rag_system |-> None, collection |-> EmptyCollection, data_path |-> 0,
          data_loaded |-> FALSE, raised |-> TRUE]}
        \cup (IF path = 0
              THEN {constructed(EmptyCollection, 0, FALSE)}
              ELSE UNION {{IF r.ok THEN constructed(r.value, path, FALSE)
                           ELSE constructed(EmptyCollection, 0, TRUE)
                             : r \in load_and_index_logs(EmptyCollection, rows)}
                            : rows \in DataFiles})

NoCall == [op |-> "none"]
NoResponse == [status |-> 0, body |-> <<>>]

----------------------------------------------------------------------------
(* The service as a state machine.                                         *)

Init ==
    /\ rag_system = None
    /\ collection = EmptyCollection
    /\ phase = "not_run"
    /\ data_loaded = FALSE
    /\ response = NoResponse
    /\ last = NoCall
    /\ ret = NoCall

\* the application starts: startup_event runs once, before any request of
\* the started application
Startup ==
    /\ phase = "not_run"
    /\ \E exists \in SUBSET DataPaths :
         \E out \in startup_event(exists) :
            /\ rag_system' = out.rag_system
            /\ collection' = out.collection
            /\ phase' = IF out.raised THEN "failed" ELSE "ready"
            /\ data_loaded' = out.data_loaded
            /\ last' = [op |-> "startup", exists |-> exists,
                        data_path |-> out.data_path, log |-> <<>>]
    /\ UNCHANGED <<response, ret>>

\* requests are served unless startup failed (a test client that never
\* runs the startup hook serves them with rag_system = None)
Serving == phase # "failed"

\* a handler that empties the collection while it answers
Respond_clearing_index(op, request, out) ==
    /\ response' = out.response
    /\ last' = [op |-> op, request |-> request, log |-> out.log, raised |-> out.raised]
    /\ collection' = EmptyCollection
    /\ UNCHANGED <<rag_system, phase, data_loaded, ret>>

\* a request handled: the handlers assign neither rag_system nor anything of
\* its collection, whose query method is the only one they call
Respond(op, request, out) ==
    /\ response' = out.response
    /\ last' = [op |-> op, request |-> request, log |-> out.log, raised |-> out.raised]
    /\ UNCHANGED <<rag_system, collection, phase, data_loaded, ret>>

GetRoot ==
    /\ Serving
    /\ Respond("root", <<>>, root)

GetHealth ==
    /\ Serving
    /\ \E now \in Times : Respond("health", <<>>, health_check(rag_system, now))

PostQuery ==
    /\ Serving
    /\ \E body \in QueryBodies, now \in Times :
         \E out \in query_logs(rag_system, collection, QueryRequest(body), now) :
            Respond("query", body, out)

PostAnalyzeAnomaly ==
    /\ Serving
    /\ \E body \in AnomalyBodies, now \in Times :
         \E out \in analyze_anomaly(rag_system, collection, AnomalyRequest(body), now) :
            Respond("analyze_anomaly", body, out)

Next == Startup \/ GetRoot \/ GetHealth \/ PostQuery \/ PostAnalyzeAnomaly

Spec == Init /\ [][Next]_vars

----------------------------------------------------------------------------
(* The rule engine alone: generate_insight applied to a query and a list   *)
(* of records.                                                             *)

InitInsight ==
    /\ rag_system = RAG
    /\ collection = EmptyCollection
    /\ phase = "direct"
    /\ data_loaded = FALSE
    /\ response = NoResponse
    /\ last \in {[op |-> "generate_insight", query |-> q, context_logs |-> logs]
                   : q \in Queries, logs \in ListsUpTo(InsightPool, MaxLogs)}
    /\ ret = NoCall

CallGenerateInsight ==
    /\ ret = NoCall
    /\ ret' = Return(generate_insight(last.query, last.context_logs))
    /\ UNCHANGED <<rag_system, collection, phase, data_loaded, response, last>>

NextInsight == CallGenerateInsight

SpecInsight == InitInsight /\ [][NextInsight]_vars

----------------------------------------------------------------------------
(* The indexer and the retriever alone: direct calls of                    *)
(* load_and_index_logs and retrieve_relevant_logs on one object.           *)

InitIndex ==
    /\ rag_system = RAG
    /\ collection = EmptyCollection
    /\ phase = "direct"
    /\ data_loaded = FALSE
    /\ response = NoResponse
    /\ last = NoCall
    /\ ret = NoCall

CallLoadAndIndex ==
    /\ \E rows \in DataFiles :
         \E out \in load_and_index_logs(collection, rows) :
            /\ collection' = IF out.ok THEN out.value ELSE collection
            /\ last' = [op |-> "load_and_index_logs", rows |-> rows]
            /\ ret' = IF out.ok THEN Return(None) ELSE out
    /\ UNCHANGED <<rag_system, phase, data_loaded, response>>

CallRetrieve ==
    /\ \E query \in Queries, top_k \in TopKs :
         \E out \in retrieve_relevant_logs(collection, query, top_k) :
            /\ last' = [op |-> "retrieve_relevant_logs", query |-> query, top_k |-> top_k]
            /\ ret' = out
    /\ UNCHANGED <<rag_system, collection, phase, data_loaded, response>>

NextIndex == CallLoadAndIndex \/ CallRetrieve

SpecIndex == InitIndex /\ [][NextIndex]_vars

----------------------------------------------------------------------------
(* Properties of the service (specification Spec).                         *)

PostOps == {"query", "analyze_anomaly"}

\* the last request was a POST handled without a library call failing
NoLibraryFailure == last.op \in PostOps /\ last.raised \notin LibraryFailures

\* C1: on an initialized service whose index holds no entries, POST /query
\* answers 200 with relevant_logs = [] and the insight "No relevant logs
\* found for this query."; it is never an error response.
C1_EmptyIndexQueryIs200 ==
    (/\ last.op = "query"
     /\ rag_system # None
     /\ collection = EmptyCollection
     /\ NoLibraryFailure)
    => /\ response.status = 200
       /\ response.body["relevant_logs"] = <<>>
       /\ response.body["insight"] = "No relevant logs found for this query."

\* C2: a POST /query carrying top_k = k >= 1 returns at most k relevant_logs.
C2_AtMostRequestedTopK ==
    (/\ last.op = "query"
     /\ "top_k" \in DOMAIN last.request
     /\ response.status = 200)
    => Len(response.body["relevant_logs"]) <= last.request["top_k"]

\* C3: a successful anomaly report carries the query "Anomaly analysis for
\* {equipment_id}: {anomaly_type}", and its insight and relevant_logs are
\* those query_system yields for "{equipment_id} {anomaly_type} {severity}"
\* (severity WARNING when the body has none) on the same index.
C3_AnomalyReportSearchesSynthesizedString ==
    (last.op = "analyze_anomaly" /\ response.status = 200)
    => LET body == last.request
           severity == IF "severity" \in DOMAIN body THEN body["severity"] ELSE "WARNING"
           searched == body["equipment_id"] \o " " \o body["anomaly_type"]
                          \o " " \o severity
       IN  /\ response.body["query"]
                = "Anomaly analysis for " \o body["equipment_id"] \o ": "
                      \o body["anomaly_type"]
           /\ \E now \in Times : \E out \in query_system(collection, searched, now) :
                 /\ out.ok
                 /\ out.value["insight"] = response.body["insight"]
                 /\ out.value["relevant_logs"] = response.body["relevant_logs"]

\* C3 witness: an anomaly report without severity answered 200 over two or
\* more retrieved records
C3_Witness ==
    /\ last.op = "analyze_anomaly"
    /\ "severity" \notin DOMAIN last.request
    /\ response.status = 200
    /\ Len(response.body["relevant_logs"]) >= 2

\* C4: while the index has not completed its initial build, which includes
\* a startup that found no data file, POST /query and POST /analyze_anomaly
\* answer 503 and retrieve nothing.
C4_NoBuildMeans503 ==
    (NoLibraryFailure /\ ~data_loaded)
    => (response.status = 503 /\ last.log = <<>>)

\* C4 as amended: while the service object has not been created, both POST
\* endpoints answer 503 and retrieve nothing; once startup has created it,
\* also over the empty index of a startup that found no data file, they run
\* the retrieval and never answer 503.
C4_UninitializedMeans503 ==
    last.op \in PostOps
    => /\ rag_system = None
          => (response = HTTPException(503, "RAG system not initialized")
              /\ last.log = <<>>)
       /\ rag_system # None => (response.status \in {200, 500} /\ Len(last.log) = 1)

\* C4 witness: a POST answered 503 before the service object exists
C4_Witness ==
    /\ last.op \in PostOps
    /\ rag_system = None
    /\ response.status = 503

\* C7: when no embedding or index call fails, POST /query and POST
\* /analyze_anomaly answer 200 or 503, never 500.
C7_Never500WithoutLibraryFailure ==
    NoLibraryFailure => response.status \in {200, 503}

\* C8: on an initialized service a failing embedding or index call is
\* caught and answered 500 with a detail string, never 200; the 503 of an
\* uninitialized service is never turned into a 500.
C8_FailuresAre500And503Stays ==
    last.op \in PostOps
    => /\ (rag_system # None /\ last.raised \in LibraryFailures)
          => /\ response.status = 500
             /\ DOMAIN response.body = {"detail"}
             /\ response.body["detail"]
                  = (IF last.op = "query" THEN "Query processing failed: "
                     ELSE "Anomaly analysis failed: ") \o last.raised
       /\ rag_system = None => response.status = 503

\* C8 witness: an index search failure answered 500 on an initialized service
C8_Witness ==
    /\ last.op \in PostOps
    /\ rag_system # None
    /\ last.raised = IndexFailure
    /\ response.status = 500

----------------------------------------------------------------------------
(* Properties of the rule engine (specification SpecInsight).              *)

\* some record of logs has the word in its message, whatever the case
SomeMessageHas(word, logs) ==
    \E i \in 1..Len(logs) : Contains(word, lower(logs[i]["message"]))

\* C5: generate_insight answers by fixed priority over the records it
\* examines: temperature before vibration before pressure, else the generic
\* "comprehensive system review" message.
C5_InsightPriority ==
    ret # NoCall
    => LET logs == last.context_logs
           temperature == SomeMessageHas("temperature", logs)
           vibration == SomeMessageHas("vibration", logs)
           pressure == SomeMessageHas("pressure", logs)
       IN  /\ ret.ok
           /\ temperature => ret.value = TemperatureInsight
           /\ (~temperature /\ vibration) => ret.value = VibrationInsight
           /\ (~temperature /\ ~vibration /\ pressure) => ret.value = PressureInsight
           /\ (~temperature /\ ~vibration /\ ~pressure) => ret.value = GenericInsight

\* C5 witness: vibration and pressure records come before the temperature
\* record and the temperature insight is returned
C5_Witness ==
    /\ ret = Return(TemperatureInsight)
    /\ last.context_logs = <<VibrationRecord, PressureRecord, TemperatureRecord>>

\* context_logs[:n]
FirstN(list, n) == SubSeq(list, 1, IF Len(list) < n THEN Len(list) ELSE n)

\* C6: generate_insight examines only the first 3 records: two lists that
\* agree on their first 3 records get the same insight.
C6_OnlyFirstThreeExamined ==
    ret # NoCall
    => \A other \in ListsUpTo(InsightPool, MaxLogs) :
          FirstN(other, 3) = FirstN(last.context_logs, 3)
          => generate_insight(last.query, other) = ret.value

----------------------------------------------------------------------------
(* Properties of the indexer and the retriever (specification SpecIndex).  *)

\* the similarity of a retrieved record to a query
RecordSimilarity(query, record) ==
    Similarity(TermVector(query), TermVector(record["searchable_text"]))

\* the scores along a retrieved list never increase
NonIncreasing(query, logs) ==
    \A i \in 1..(Len(logs) - 1) :
        AtLeast(RecordSimilarity(query, logs[i]), RecordSimilarity(query, logs[i + 1]))

\* the position at which an id was inserted
IdNumber(id) == CHOOSE n \in 0..Cardinality(DOMAIN collection) : str(n) = id

\* the list is the metadata of distinct index entries, those of equal
\* similarity in insertion order
TiesInInsertionOrder(query, logs) ==
    \E r \in [1..Len(logs) -> DOMAIN collection] :
        /\ \A i, j \in 1..Len(logs) : i # j => r[i] # r[j]
        /\ \A i \in 1..Len(logs) : collection[r[i]].metadata = logs[i]
        /\ \A i, j \in 1..Len(logs) :
              (/\ i < j
               /\ AtLeast(RecordSimilarity(query, logs[j]), RecordSimilarity(query, logs[i])))
              => IdNumber(r[i]) < IdNumber(r[j])

\* a retrieve call in which neither library call failed
Retrieved == last.op = "retrieve_relevant_logs" /\ ret.ok

C10_ReindexOverwritesById ==
    (/\ last.op = "load_and_index_logs"
     /\ \A i \in 1..Len(last.rows) : DOMAIN last.rows[i] = LogColumns
     /\ (ret.ok \/ ret.exc \notin LibraryFailures))
    => \A i \in 1..Len(last.rows) :
          /\ str(i - 1) \in DOMAIN collection
          /\ \A c \in LogColumns :
                /\ c \in DOMAIN collection[str(i - 1)].metadata
                /\ collection[str(i - 1)].metadata[c] = last.rows[i][c]

\* the fields a log record must have
RequiredFields == {"timestamp", "equipment_id", "severity", "message"}

\* C12: an index call on a batch in which some record lacks one of the
\* required fields timestamp, equipment_id, severity, message fails with an
\* error and leaves the index exactly as it was before the call.
C12_IncompleteBatchRejected ==
    [][(/\ last'.op = "load_and_index_logs"
        /\ \E i \in 1..Len(last'.rows) : ~(RequiredFields \subseteq DOMAIN last'.rows[i]))
       => (~ret'.ok /\ collection' = collection)]_vars

----------------------------------------------------------------------------
(* Properties of the records handed back (specification Spec).             *)

\* C11: every record in the relevant_logs of a 200 answer is an original
\* log record, unmodified: it has exactly the seven columns timestamp,
\* equipment_id, equipment_type, severity, message, facility, operator,
\* with the values of a record of the indexed file and no field added.
C11_RelevantLogsAreOriginalRecords ==
    (last.op \in PostOps /\ response.status = 200)
    => \A i \in 1..Len(response.body["relevant_logs"]) :
          LET log == response.body["relevant_logs"][i]
          IN  /\ DOMAIN log = LogColumns
              /\ log \in RecordPool

----------------------------------------------------------------------------
(* Frame of the readers and the startup hook (specification Spec).         *)

ReaderOps == {"root", "health", "query", "analyze_anomaly"}

\* C13: readers never mutate the index: whatever GET /, GET /health, POST
\* /query and POST /analyze_anomaly answer, success or failure, and in any
\* order, the service object and the entries of its collection stay as they
\* were, so a later query meets the same index.
C13_ReadersLeaveIndexUnchanged ==
    [][last'.op \in ReaderOps
       => (collection' = collection /\ rag_system' = rag_system)]_vars

\* C13 witness: a query that failed in the index search, answered 500, over
\* an index that still holds its two entries
C13_Witness ==
    /\ last.op = "query"
    /\ last.raised = IndexFailure
    /\ response.status = 500
    /\ DOMAIN collection = {"0", "1"}

\* the collection holds the rows of one data file and nothing else
IndexOfOneFile ==
    \E rows \in DataFiles :
       /\ DOMAIN collection = {str(i - 1) : i \in 1..Len(rows)}
       /\ \A i \in 1..Len(rows) :
             LET metadata == collection[str(i - 1)].metadata
             IN  /\ DOMAIN metadata = DOMAIN rows[i] \cup {"searchable_text"}
                 /\ \A c \in DOMAIN rows[i] : metadata[c] = rows[i][c]

\* C14: startup indexes at most one data file, the first candidate path
\* that exists; when none exists nothing is indexed and startup completes
\* with the service object set, so that GET /health reports
\* rag_system_initialized = true over the empty index; when the constructor
\* or the indexing raises, startup fails and no request is served.
C14_StartupLoadsFirstExistingFile ==
    /\ last.op = "startup"
       => /\ phase \in {"ready", "failed"}
          /\ phase = "ready"
             => /\ rag_system = RAG
                /\ data_loaded = (last.exists # {})
                /\ last.exists = {} => (last.data_path = 0 /\ collection = EmptyCollection)
                /\ last.exists # {}
                   => /\ last.data_path \in last.exists
                      /\ \A p \in last.exists : last.data_path <= p
          /\ (rag_system = None \/ (last.exists # {} /\ last.data_path = 0))
             => phase = "failed"
    /\ phase = "ready" => IndexOfOneFile
    /\ phase = "failed" => last.op = "startup"
    /\ (last.op = "health" /\ phase = "ready")
       => (response.status = 200 /\ response.body["rag_system_initialized"] = TRUE)

\* C14 witness: the second and the fourth candidate exist, and startup has
\* indexed the second
C14_Witness ==
    /\ last.op = "startup"
    /\ phase = "ready"
    /\ last.exists = {2, 4}
    /\ last.data_path = 2
    /\ collection # EmptyCollection

====
